---- MODULE Spec2Model ----
(***************************************************************************)
(* Recording store of server.js: an sqlite table of recordings (the        *)
(* metadata index), a directory of uploaded blobs, and the four request     *)
(* handlers (ingest, list, retrieve, delete) that coordinate them.          *)
(*                                                                         *)
(* Every asynchronous call of a handler (db.get, db.run, db.all, fs.unlink, *)
(* the multer file write, the read stream's open) is one atomic step,      *)
(* taken together with the callback lines that follow it up to the next    *)
(* asynchronous call; the steps of different requests interleave freely.   *)
(* fs.unlink, the file write and the stream's open run on the libuv thread *)
(* pool, so they also interleave with the synchronous fs.existsSync and    *)
(* fs.statSync calls of a retrieve callback, which are steps of their own.  *)
(*                                                                         *)
(* The requests in flight form a bag of records (position and locals of    *)
(* each handler).  A step that answers a request leaves the exchange        *)
(* (request and response) in out; every other step clears out.             *)
(* I/O faults (a failing sqlite call, a failing file write or unlink) are  *)
(* nondeterministic choices of the step that makes the call.               *)
(***************************************************************************)
EXTENDS Integers, Sequences, FiniteSets, Bags, TLC

\* ------------------------------------------------------------------ bounds
MaxInFlight == 2      \* requests in flight at once
MaxIngests  == 2      \* uploads that reach the filename callback
MaxClock    == 1      \* Date.now() ranges over 0..MaxClock
NumRandom   == 1      \* distinct outcomes of Math.random()
MaxLen      == 1      \* longest uploaded content, in bytes
MaxBlob     == 3      \* longest stored recording of the retrieve-only specification
Beyond      == 1      \* a Range header's offsets reach this far past the last byte

Bytes    == {0, 1}
Contents == UNION {[1..n -> Bytes] : n \in 0..MaxLen}
Ids      == 1..MaxIngests           \* the ids a client may ask for

\* Names are sequences of characters.
DefaultExt == <<".", "w", "e", "b", "m">>
OrigNames  == { <<>>, <<"v", ".", "m">> }

\* ----------------------------------------------------------- pure helpers
uploadDir == "uploads"

\* path.extname: from the last "." to the end; empty when there is no "." or
\* when the only "." is the first character.
LastDot(s) == IF \E i \in 1..Len(s) : s[i] = "."
              THEN CHOOSE i \in 1..Len(s) : s[i] = "." /\ \A j \in (i+1)..Len(s) : s[j] # "."
              ELSE 0
extname(s) == IF LastDot(s) <= 1 THEN <<>> ELSE SubSeq(s, LastDot(s), Len(s))

\* Date.now() and Math.random().toString(36).slice(2) as text: the clock
\* value in digits, and one token per outcome of Math.random()
TimeText(t)    == <<ToString(t)>>
RandomText(rnd) == <<ToString(rnd)>>

\* `${Date.now()}-${Math.random().toString(36).slice(2)}${ext}`
filename(originalname, t, rnd) ==
    TimeText(t) \o <<"-">> \o RandomText(rnd)
        \o (IF extname(originalname) # <<>> THEN extname(originalname) ELSE DefaultExt)

\* path.join(uploadDir, name)
JoinPath(name) == <<uploadDir, "/">> \o name

\* path.basename: what follows the last "/"
LastSlash(s) == IF \E i \in 1..Len(s) : s[i] = "/"
                THEN CHOOSE i \in 1..Len(s) : s[i] = "/" /\ \A j \in (i+1)..Len(s) : s[j] # "/"
                ELSE 0
basename(fp) == SubSeq(fp, LastSlash(fp) + 1, Len(fp))

Keys  == {filename(o, t, rnd) : o \in OrigNames, t \in 0..MaxClock, rnd \in 1..NumRandom}
Paths == {JoinPath(k) : k \in Keys}

VARIABLES
    rows,          \* table recordings: id -> row
    seq,           \* sqlite_sequence of the AUTOINCREMENT key: largest id ever assigned
    disk,          \* uploads directory: path -> content
    now,           \* the clock behind Date.now()
    inflight,      \* bag of the requests in flight: each handler's position and locals
    out,           \* the exchange the last step completed, if it completed one
    crashed,       \* an exception escaped a callback: the process is gone
    started,       \* number of uploads that reached the filename callback
    deletedOk,     \* history: ids for which a delete has answered Deleted
    idxDelFailed,  \* history: ids with a row whose delete failed at the index-delete step
    ingested       \* history: id of each recording not yet deleted -> the content its upload sent

vars == <<rows, seq, disk, now, inflight, out, crashed, started, deletedOk, idxDelFailed, ingested>>

NoRow   == [id |-> 0, filename |-> <<>>, filepath |-> <<>>, filesize |-> 0, createdAt |-> 0]
NoRange == [present |-> FALSE, start |-> 0, hasEnd |-> FALSE, end |-> 0]

NoReq == [op |-> "none", pc |-> "new", id |-> 0, row |-> NoRow,
          originalname |-> <<>>, filename |-> <<>>, size |-> 0,
          range |-> NoRange, fileSize |-> 0, fsErr |-> "", later |-> FALSE,
          content |-> <<>>]

NoRes == [status |-> 0, error |-> "", message |-> "", recordings |-> <<>>,
          contentLength |-> 0, contentRange |-> <<>>, body |-> <<>>]

\* a completed exchange: the request as it ended and the response it got
NoOut == [req |-> NoReq, res |-> NoRes]

InFlight    == BagToSet(inflight)
Free        == ~crashed /\ BagCardinality(inflight) < MaxInFlight
At(r, o, l) == ~crashed /\ r.op = o /\ r.pc = l

Json(st, err) == [NoRes EXCEPT !.status = st, !.error = err]

\* a new request r is taken up and waits at position l
Start(r, l) ==
    /\ inflight' = inflight (+) SetToBag({[r EXCEPT !.pc = l]})
    /\ out' = NoOut

\* a new request r is answered at once
Answer(r, response) ==
    /\ out' = [req |-> r, res |-> response]
    /\ UNCHANGED inflight

\* the request r in flight goes on, as r2, to position l
Goto(r, r2, l) ==
    /\ inflight' = (inflight (-) SetToBag({r})) (+) SetToBag({[r2 EXCEPT !.pc = l]})
    /\ out' = NoOut

\* the request r in flight is answered, having ended as r2
Reply(r, r2, response) ==
    /\ inflight' = inflight (-) SetToBag({r})
    /\ out' = [req |-> r2, res |-> response]

\* An exception escapes a callback (a throw inside the db.get callback, an
\* 'error' event of a stream nobody listens to): the process ends where it is.
Crash(r, response) ==
    /\ crashed' = TRUE
    /\ out' = [req |-> r, res |-> response]
    /\ UNCHANGED inflight

Init ==
    /\ rows = <<>>
    /\ seq = 0
    /\ disk = <<>>
    /\ now = 0
    /\ inflight = EmptyBag
    /\ out = NoOut
    /\ crashed = FALSE
    /\ started = 0
    /\ deletedOk = {}
    /\ idxDelFailed = {}
    /\ ingested = <<>>

\* the clock advances
Tick ==
    /\ ~crashed
    /\ now < MaxClock
    /\ now' = now + 1
    /\ out' = NoOut
    /\ UNCHANGED <<rows, seq, disk, inflight, crashed, started, deletedOk, idxDelFailed, ingested>>

\* ------------------------------------------------------------ the index
MaxOf(S) == IF S = {} THEN 0 ELSE CHOOSE x \in S : \A y \in S : y <= x

\* mutant of nextId: a key without AUTOINCREMENT, one more than the largest
\* id now in the table
nextIdReused(tbl, s) == MaxOf(DOMAIN tbl) + 1

\* mutant of nextId: one more than the number of rows
nextIdFromCount(tbl, s) == Cardinality(DOMAIN tbl) + 1

\* INTEGER PRIMARY KEY AUTOINCREMENT: one more than the largest id the table
\* ever held, which sqlite_sequence remembers
nextId(tbl, s) == MaxOf(DOMAIN tbl \cup {s}) + 1

\* mutant of Insert: the stored name goes into the filename column
InsertStoredName(tbl, id, name, fp, size, t) ==
    [i \in DOMAIN tbl \cup {id} |->
        IF i = id
        THEN [id |-> id, filename |-> basename(fp), filepath |-> fp, filesize |-> size,
              createdAt |-> t]
        ELSE tbl[i]]

Insert(tbl, id, name, fp, size, t) ==
    [i \in DOMAIN tbl \cup {id} |->
        IF i = id
        THEN [id |-> id, filename |-> name, filepath |-> fp, filesize |-> size, createdAt |-> t]
        ELSE tbl[i]]

\* DELETE FROM recordings WHERE id = ?  (no error when no row matches)
DeleteRow(tbl, id) == [i \in DOMAIN tbl \ {id} |-> tbl[i]]

\* SELECT * FROM recordings WHERE id = ?
GetRow(tbl, id) == IF id \in DOMAIN tbl THEN tbl[id] ELSE NoRow

\* mutant of OrderByIdDesc: ORDER BY id ASC
RECURSIVE OrderByIdAsc(_, _)
OrderByIdAsc(tbl, S) ==
    IF S = {} THEN <<>>
    ELSE LET m == CHOOSE x \in S : \A y \in S : x <= y
         IN  <<tbl[m]>> \o OrderByIdAsc(tbl, S \ {m})

\* SELECT ... ORDER BY id DESC
RECURSIVE OrderByIdDesc(_, _)
OrderByIdDesc(tbl, S) ==
    IF S = {} THEN <<>>
    ELSE LET m == CHOOSE x \in S : \A y \in S : y <= x
         IN  <<tbl[m]>> \o OrderByIdDesc(tbl, S \ {m})

\* mutant of sanitized: the rows are sent as the table holds them
sanitizedNot(rs) == rs

\* rows.map(r => ({ ...r, filepath: path.basename(r.filepath) }))
sanitized(rs) == [i \in 1..Len(rs) |-> [rs[i] EXCEPT !.filepath = basename(rs[i].filepath)]]

\* what GET /api/recordings answers for a table
ListOf(tbl) == sanitized(OrderByIdDesc(tbl, DOMAIN tbl))

\* ------------------------------------------------------------- the disk
Exists(d, fp) == fp \in DOMAIN d

\* the file write of multer's disk storage: creates the file or truncates it
WriteFile(d, fp, data) == [x \in DOMAIN d \cup {fp} |-> IF x = fp THEN data ELSE d[x]]

\* fs.unlink
Unlink(d, fp) == [x \in DOMAIN d \ {fp} |-> d[x]]

StrictPrefixes(data) == {SubSeq(data, 1, n) : n \in 0..(Len(data) - 1)}

\* --------------------------------------------------------------- ingest
\* POST /api/recordings without a file part: multer sets no req.file
IngestNoFile ==
    /\ Free
    /\ Answer([NoReq EXCEPT !.op = "ingest"], Json(400, "No file uploaded"))
    /\ UNCHANGED <<rows, seq, disk, now, crashed, started, deletedOk, idxDelFailed, ingested>>

\* POST /api/recordings with a file part: multer asks the filename callback
\* for the stored name
IngestFilename ==
    /\ Free
    /\ started < MaxIngests
    /\ \E o \in OrigNames, rnd \in 1..NumRandom :
          Start([NoReq EXCEPT !.op = "ingest", !.originalname = o,
                              !.filename = filename(o, now, rnd)], "write")
    /\ started' = started + 1
    /\ UNCHANGED <<rows, seq, disk, now, crashed, deletedOk, idxDelFailed, ingested>>

\* the error the file write of an upload can end with
WriteErrors == {"none", "ENOSPC"}

\* mutant of IngestWrite: a failed store is not noticed, the handler runs on
\* what was written
IngestWriteGoesOn(r) ==
    /\ At(r, "ingest", "write")
    /\ \E data \in Contents, err \in WriteErrors :
         LET fp == JoinPath(r.filename) IN
         \E part \in (IF err = "none" THEN {data} ELSE StrictPrefixes(data)) :
            /\ disk' = WriteFile(disk, fp, part)
            /\ Goto(r, [r EXCEPT !.size = Len(part), !.fsErr = err, !.content = data], "insert")
    /\ UNCHANGED <<rows, seq, now, crashed, started, deletedOk, idxDelFailed, ingested>>

\* multer streams the part into uploadDir/filename; req.file.size is the
\* number of bytes written
IngestWrite(r) ==
    /\ At(r, "ingest", "write")
    /\ \E data \in Contents, err \in WriteErrors :
         LET fp == JoinPath(r.filename) IN
         IF err = "none"
         THEN /\ disk' = WriteFile(disk, fp, data)
              /\ Goto(r, [r EXCEPT !.size = Len(data), !.fsErr = err, !.content = data],
                      "insert")
         ELSE \* the write fails: multer passes the error on, the handler never runs
              /\ \/ UNCHANGED disk
                 \/ \E part \in StrictPrefixes(data) : disk' = WriteFile(disk, fp, part)
              /\ Reply(r, [r EXCEPT !.fsErr = err], Json(500, "Internal Server Error"))
    /\ UNCHANGED <<rows, seq, now, crashed, started, deletedOk, idxDelFailed, ingested>>

\* the handler: db.run(INSERT ...) and its callback
IngestInsert(r) ==
    /\ At(r, "ingest", "insert")
    /\ LET name == IF r.originalname # <<>> THEN r.originalname ELSE r.filename
           fp   == JoinPath(r.filename)
           id   == nextId(rows, seq)
       IN
       \/ /\ rows' = Insert(rows, id, name, fp, r.size, now)
          /\ seq' = id
          /\ ingested' = [i \in DOMAIN ingested \cup {id} |->
                              IF i = id THEN r.content ELSE ingested[i]]
          /\ Reply(r, [r EXCEPT !.id = id],
                   [NoRes EXCEPT !.status = 201,
                                 !.message = "Recording uploaded successfully",
                                 !.recordings = << [id |-> id, filename |-> name,
                                                    filepath |-> basename(fp),
                                                    filesize |-> r.size,
                                                    createdAt |-> now] >>])
       \/ /\ Reply(r, r, Json(500, "Failed to save metadata"))
          /\ UNCHANGED <<rows, seq, ingested>>
    /\ UNCHANGED <<disk, now, crashed, started, deletedOk, idxDelFailed>>

\* ----------------------------------------------------------------- list
List ==
    /\ Free
    /\ \/ Answer([NoReq EXCEPT !.op = "list"],
                 [NoRes EXCEPT !.status = 200, !.recordings = ListOf(rows)])
       \/ Answer([NoReq EXCEPT !.op = "list"], Json(500, "DB error"))
    /\ UNCHANGED <<rows, seq, disk, now, crashed, started, deletedOk, idxDelFailed, ingested>>

\* ------------------------------------------------------------- retrieve
\* the Range header, already split and parsed: absent, "bytes=a-" or
\* "bytes=a-b", with offsets from 0 to a little past the end of the file
Offsets(fileSize) == 0..(fileSize + Beyond)

Ranges(fileSize) ==
    {NoRange} \cup
    {[present |-> TRUE, start |-> a, hasEnd |-> FALSE, end |-> 0] : a \in Offsets(fileSize)} \cup
    {[present |-> TRUE, start |-> a, hasEnd |-> TRUE, end |-> b] :
        a \in Offsets(fileSize), b \in Offsets(fileSize)}

\* GET /api/recordings/:id : db.get and the first two lines of its callback
RetrieveGet ==
    /\ Free
    /\ \E id \in Ids :
         LET r == [NoReq EXCEPT !.op = "retrieve", !.id = id] IN
          \/ Answer(r, Json(500, "DB error"))
          \/ /\ GetRow(rows, id) = NoRow
             /\ Answer(r, Json(404, "Recording not found"))
          \/ /\ GetRow(rows, id) # NoRow
             /\ Start([r EXCEPT !.row = GetRow(rows, id)], "exists")
    /\ UNCHANGED <<rows, seq, disk, now, crashed, started, deletedOk, idxDelFailed, ingested>>

\* mutant of RetrieveExists: a stale row is removed when the blob is missing
RetrieveExistsCleans(r) ==
    /\ At(r, "retrieve", "exists")
    /\ IF Exists(disk, r.row.filepath)
       THEN Goto(r, r, "stat") /\ UNCHANGED rows
       ELSE Reply(r, r, Json(404, "File missing on server")) /\ rows' = DeleteRow(rows, r.id)
    /\ UNCHANGED <<seq, disk, now, crashed, started, deletedOk, idxDelFailed, ingested>>

\* fs.existsSync(absolute)
RetrieveExists(r) ==
    /\ At(r, "retrieve", "exists")
    /\ IF Exists(disk, r.row.filepath)
       THEN Goto(r, r, "stat")
       ELSE Reply(r, r, Json(404, "File missing on server"))
    /\ UNCHANGED <<rows, seq, disk, now, crashed, started, deletedOk, idxDelFailed, ingested>>

\* start and end as line 114-115 compute them
RangeStart(range) == range.start

\* mutant of RangeEnd: an omitted end becomes the file size
RangeEndPastLast(range, fileSize) == IF range.hasEnd THEN range.end ELSE fileSize
RangeEnd(range, fileSize) == IF range.hasEnd THEN range.end ELSE fileSize - 1

\* fs.createReadStream(absolute, { start, end }) throws when the end is
\* below 0 or the start is above the end
StreamRejected(range, fileSize) ==
    range.present /\ (RangeEnd(range, fileSize) < 0
                        \/ RangeStart(range) > RangeEnd(range, fileSize))

\* mutant of HeadOf: the chunk size leaves out the byte at the end offset
HeadOfChunkShort(range, fileSize) ==
    IF range.present
    THEN [NoRes EXCEPT !.status = 206,
                       !.contentRange = <<RangeStart(range), RangeEnd(range, fileSize), fileSize>>,
                       !.contentLength = RangeEnd(range, fileSize) - RangeStart(range)]
    ELSE [NoRes EXCEPT !.status = 200, !.contentLength = fileSize]

\* the head written by res.writeHead
HeadOf(range, fileSize) ==
    IF range.present
    THEN [NoRes EXCEPT !.status = 206,
                       !.contentRange = <<RangeStart(range), RangeEnd(range, fileSize), fileSize>>,
                       !.contentLength = RangeEnd(range, fileSize) - RangeStart(range) + 1]
    ELSE [NoRes EXCEPT !.status = 200, !.contentLength = fileSize]

\* fs.statSync(absolute), the range arithmetic, fs.createReadStream and
\* res.writeHead: the rest of the db.get callback
RetrieveStat(r) ==
    /\ At(r, "retrieve", "stat")
    /\ LET fp == r.row.filepath IN
       IF ~Exists(disk, fp)
       THEN Crash(r, Json(0, "uncaught ENOENT"))            \* statSync throws
       ELSE LET fileSize == Len(disk[fp]) IN
            \E range \in Ranges(fileSize) :
              IF StreamRejected(range, fileSize)
              THEN /\ Crash([r EXCEPT !.range = range, !.fileSize = fileSize],
                            Json(0, "uncaught ERR_OUT_OF_RANGE"))
              ELSE /\ Goto(r, [r EXCEPT !.range = range, !.fileSize = fileSize], "open")
                   /\ UNCHANGED crashed
    /\ UNCHANGED <<rows, seq, disk, now, started, deletedOk, idxDelFailed, ingested>>

\* the bytes a read stream delivers from an open file
ReadBytes(data, range, fileSize) ==
    IF range.present
    THEN LET last == RangeEnd(range, fileSize) + 1 IN
         SubSeq(data, RangeStart(range) + 1, IF last < Len(data) THEN last ELSE Len(data))
    ELSE data

\* the read stream opens the file and is piped into the response
RetrieveOpen(r) ==
    /\ At(r, "retrieve", "open")
    /\ LET fp   == r.row.filepath
           head == HeadOf(r.range, r.fileSize)
       IN
       IF ~Exists(disk, fp)
       THEN Crash(r, [head EXCEPT !.error = "uncaught ENOENT"])  \* 'error' event, no listener
       ELSE /\ Reply(r, r,
                     [head EXCEPT !.body = ReadBytes(disk[fp], r.range, r.fileSize)])
            /\ UNCHANGED crashed
    /\ UNCHANGED <<rows, seq, disk, now, started, deletedOk, idxDelFailed, ingested>>

\* --------------------------------------------------------------- delete
\* DELETE /api/recordings/:id : db.get and the first two lines of its callback
DeleteGet ==
    /\ Free
    /\ \E id \in Ids :
         LET r == [NoReq EXCEPT !.op = "delete", !.id = id, !.later = (id \in deletedOk)] IN
          \/ Answer(r, Json(500, "DB error"))
          \/ /\ GetRow(rows, id) = NoRow
             /\ Answer(r, Json(404, "Recording not found"))
          \/ /\ GetRow(rows, id) # NoRow
             /\ Start([r EXCEPT !.row = GetRow(rows, id)], "unlink")
    /\ UNCHANGED <<rows, seq, disk, now, crashed, started, deletedOk, idxDelFailed, ingested>>

\* the error fs.unlink can hand its callback for a path
UnlinkErrors(d, fp) == (IF Exists(d, fp) THEN {"none"} ELSE {"ENOENT"}) \cup {"EACCES"}

\* mutants of UnlinkFatal: every error is let through; ENOENT is fatal too
UnlinkFatalNever(fsErr)  == FALSE
UnlinkFatalAlways(fsErr) == fsErr # "none"

\* fsErr && fsErr.code !== "ENOENT"
UnlinkFatal(fsErr) == fsErr # "none" /\ fsErr # "ENOENT"

\* fs.unlink(row.filepath) and its callback up to db.run
DeleteUnlink(r) ==
    /\ At(r, "delete", "unlink")
    /\ \E fsErr \in UnlinkErrors(disk, r.row.filepath) :
          /\ disk' = IF fsErr = "none" THEN Unlink(disk, r.row.filepath) ELSE disk
          /\ IF UnlinkFatal(fsErr)
             THEN Reply(r, [r EXCEPT !.fsErr = fsErr], Json(500, "Failed to delete file"))
             ELSE Goto(r, [r EXCEPT !.fsErr = fsErr], "run")
    /\ UNCHANGED <<rows, seq, now, crashed, started, deletedOk, idxDelFailed, ingested>>

\* db.run(DELETE ...) and its callback
DeleteRun(r) ==
    /\ At(r, "delete", "run")
    /\ \/ /\ rows' = DeleteRow(rows, r.id)
          /\ Reply(r, r, [NoRes EXCEPT !.status = 200, !.message = "Deleted"])
          /\ deletedOk' = deletedOk \cup {r.id}
          /\ idxDelFailed' = idxDelFailed \ {r.id}
          /\ ingested' = [i \in DOMAIN ingested \ {r.id} |-> ingested[i]]
       \/ /\ Reply(r, r, Json(500, "Failed to delete DB record"))
          /\ idxDelFailed' = idxDelFailed \cup {r.id}
          /\ UNCHANGED <<rows, deletedOk, ingested>>
    /\ UNCHANGED <<seq, disk, now, crashed, started>>

\* ---------------------------------------------------------------- system
Next ==
    \/ Tick
    \/ IngestNoFile
    \/ IngestFilename
    \/ \E r \in InFlight : IngestWrite(r)
    \/ \E r \in InFlight : IngestInsert(r)
    \/ List
    \/ RetrieveGet
    \/ \E r \in InFlight : RetrieveExists(r)
    \/ \E r \in InFlight : RetrieveStat(r)
    \/ \E r \in InFlight : RetrieveOpen(r)
    \/ DeleteGet
    \/ \E r \in InFlight : DeleteUnlink(r)
    \/ \E r \in InFlight : DeleteRun(r)

Spec == Init /\ [][Next]_vars

\* Retrieves from a store that holds one recording, uploaded earlier without a
\* file name: the range arithmetic of retrieve over every content of up to
\* MaxBlob bytes.
StoredContents == UNION {[1..n -> Bytes] : n \in 0..MaxBlob}

RangeInit ==
    \E data \in StoredContents :
       LET name == filename(<<>>, 0, 1) IN
       /\ rows = Insert(<<>>, 1, name, JoinPath(name), Len(data), 0)
       /\ seq = 1
       /\ disk = WriteFile(<<>>, JoinPath(name), data)
       /\ now = 0
       /\ inflight = EmptyBag
       /\ out = NoOut
       /\ crashed = FALSE
       /\ started = 1
       /\ deletedOk = {}
       /\ idxDelFailed = {}
       /\ ingested = (1 :> data)

RangeNext ==
    \/ RetrieveGet
    \/ \E r \in InFlight : RetrieveExists(r)
    \/ \E r \in InFlight : RetrieveStat(r)
    \/ \E r \in InFlight : RetrieveOpen(r)

RangeSpec == RangeInit /\ [][RangeNext]_vars

TypeOK ==
    /\ seq \in 0..MaxIngests
    /\ DOMAIN rows \subseteq 1..seq
    /\ DOMAIN disk \subseteq Paths
    /\ \A fp \in DOMAIN disk : disk[fp] \in Contents \cup StoredContents
    /\ now \in 0..MaxClock
    /\ crashed \in BOOLEAN

\* ------------------------------------------------------ claims' vocabulary
Ingests == {r \in InFlight : r.op = "ingest"}
Deletes == {r \in InFlight : r.op = "delete"}

\* the in-flight request r takes a step that moves it on or answers it
Leaves(r) == CopiesIn(r, inflight') < CopiesIn(r, inflight)

Deleted200  == [NoRes EXCEPT !.status = 200, !.message = "Deleted"]
NotFound    == Json(404, "Recording not found")
FileMissing == Json(404, "File missing on server")
StorageDeleteError == Json(500, "Failed to delete file")
IndexDeleteError   == Json(500, "Failed to delete DB record")

\* blob already unlinked by a delete of id that has not yet removed the row
BeingDeleted(id) == \E r \in Deletes : r.id = id /\ r.pc = "run"

\* C1: every row of the index refers to a blob that exists on disk, unless
\* its id is being deleted (blob unlinked, row not yet removed) or its delete
\* failed at the index-delete step.
C1_RowsHaveBlobs ==
    \A id \in DOMAIN rows :
        \/ Exists(disk, rows[id].filepath)
        \/ BeingDeleted(id)
        \/ id \in idxDelFailed

\* C10: any two ingests obtain different storage keys: no two uploads in
\* flight share a stored name, no upload in flight has the stored name of an
\* existing recording or of a file already on disk, and no two rows share a
\* filepath.
C10_UniqueStorageKeys ==
    /\ \A r \in Ingests : CopiesIn(r, inflight) = 1
    /\ \A r1, r2 \in Ingests : r1.filename = r2.filename => r1 = r2
    /\ \A r \in Ingests : \A id \in DOMAIN rows : rows[id].filepath # JoinPath(r.filename)
    /\ \A r \in Ingests : r.pc = "write" => ~Exists(disk, JoinPath(r.filename))
    /\ \A i, j \in DOMAIN rows : i # j => rows[i].filepath # rows[j].filepath

\* C3: when a delete of id X answers Deleted, the index holds no row with id
\* X and the blob that row referenced is absent from disk; the rows and the
\* blobs of every other id are unchanged by that delete, that is by its
\* unlink step and by its index-delete step.
OthersUntouched(id) ==
    \A i \in DOMAIN rows \ {id} :
        /\ i \in DOMAIN rows' /\ rows'[i] = rows[i]
        /\ Exists(disk, rows[i].filepath) =>
              Exists(disk', rows[i].filepath) /\ disk'[rows[i].filepath] = disk[rows[i].filepath]

C3_DeleteRemovesOnlyItsOwn ==
    [][\A r \in Deletes :
          /\ (r.pc = "unlink" /\ Leaves(r)) => OthersUntouched(r.id)
          /\ (r.pc = "run" /\ Leaves(r) /\ out'.res = Deleted200) =>
                /\ r.id \notin DOMAIN rows'
                /\ ~Exists(disk', r.row.filepath)
                /\ OthersUntouched(r.id)]_vars

\* C8: a retrieve that runs concurrently with a delete of the same id never
\* ends in a failure that escapes the request: the blob being unlinked after
\* the existence check does not end it with an uncaught ENOENT.
C8_RetrieveNeverEscapes ==
    ~(out.req.op = "retrieve" /\ out.res.error = "uncaught ENOENT")

\* C9: of the deletes of one id, at most one answers Deleted: a delete that
\* answers Deleted is the first to do so for its id.
C9_AtMostOneDeleted ==
    [][\A r \in Deletes :
          (r.pc = "run" /\ Leaves(r) /\ out'.res = Deleted200) => r.id \notin deletedOk]_vars

\* the in-flight request r takes a step and is r2 afterwards, in flight or answered
Becomes(r, r2) ==
    /\ Leaves(r)
    /\ \/ out'.req = r2
       \/ CopiesIn(r2, inflight') > CopiesIn(r2, inflight)

\* C2: an ingest whose blob store and index insert both succeed adds exactly
\* one recording to what list answers: the list after the insert is the list
\* before it plus one recording, whose filename is the uploader's original
\* name (the stored name when there is none) and whose filesize is the number
\* of bytes written by the store.
C2_IngestAddsOneRecording ==
    [][\A r \in Ingests :
          /\ (r.pc = "write" /\ Leaves(r) /\ out' = NoOut) =>
                Becomes(r, [r EXCEPT !.pc = "insert", !.fsErr = "none",
                                     !.size = Len(disk'[JoinPath(r.filename)]),
                                     !.content = disk'[JoinPath(r.filename)]])
          /\ (r.pc = "insert" /\ Leaves(r) /\ out'.res.status = 201) =>
                LET before == ListOf(rows)
                    after  == ListOf(rows')
                IN  /\ Len(after) = Len(before) + 1
                    /\ \E k \in 1..Len(after) :
                          /\ before = [i \in 1..Len(before) |->
                                          IF i < k THEN after[i] ELSE after[i + 1]]
                          /\ after[k].filename =
                                (IF r.originalname # <<>> THEN r.originalname ELSE r.filename)
                          /\ after[k].filesize = r.size]_vars

C2_Witness ==
    /\ out.req.op = "ingest" /\ out.res.status = 201
    /\ out.req.originalname = <<>>
    /\ Len(ListOf(rows)) = 2
    /\ ListOf(rows)[1].filename = out.req.filename
    /\ ListOf(rows)[1].filesize = 1

\* C4: when, in a delete of an id whose row the lookup found, the unlink
\* fails for a reason other than the file being absent, the delete answers
\* 500 "Failed to delete file" and changes neither the index nor the disk: the
\* row is still there (unless another delete has answered Deleted for it), so
\* a later delete finds it again.
C4_UnlinkFailureKeepsRow ==
    [][\A r \in Deletes : \A e \in {"EACCES"} :
          (r.pc = "unlink" /\ (Becomes(r, [r EXCEPT !.fsErr = e])
                                 \/ Becomes(r, [r EXCEPT !.fsErr = e, !.pc = "run"]))) =>
              /\ out'.req = [r EXCEPT !.fsErr = e]
              /\ out'.res = StorageDeleteError
              /\ rows' = rows
              /\ disk' = disk
              /\ r.id \notin deletedOk => GetRow(rows', r.id) = r.row]_vars

C4_Witness ==
    /\ out.req.op = "delete" /\ out.res = StorageDeleteError
    /\ GetRow(rows, out.req.id) = out.req.row
    /\ Exists(disk, out.req.row.filepath)

\* C5: a delete of an id whose row the lookup found and whose blob is absent
\* when it is unlinked does not treat the missing file as an error: unless the
\* index delete itself fails, the row is removed and the answer is Deleted.
C5_MissingBlobStillDeletes ==
    (out.req.op = "delete" /\ out.req.fsErr = "ENOENT" /\ out.res # IndexDeleteError) =>
        /\ out.res = Deleted200
        /\ out.req.id \notin DOMAIN rows

C5_Witness ==
    out.req.op = "delete" /\ out.req.fsErr = "ENOENT" /\ out.res = Deleted200

\* C6: once a delete of id X has answered Deleted, every delete of X whose
\* lookup comes later and answers at all (does not fail with "DB error")
\* answers NotFound: never Deleted again, never a storage error.
C6_LaterDeleteNotFound ==
    (out.req.op = "delete" /\ out.req.later /\ out.res # Json(500, "DB error")) =>
        out.res = NotFound

C6_Witness ==
    out.req.op = "delete" /\ out.req.later /\ out.res = NotFound

\* C7: a retrieve whose lookup found the row and whose existence check finds
\* the blob absent answers 404 "File missing on server" and changes neither
\* the index nor the disk: the stale row stays.
C7_FileMissingChangesNothing ==
    [][\A r \in InFlight :
          (r.op = "retrieve" /\ r.pc = "exists" /\ Leaves(r)
             /\ ~Exists(disk, r.row.filepath)) =>
              /\ out' = [req |-> r, res |-> FileMissing]
              /\ rows' = rows
              /\ disk' = disk]_vars

C7_Witness ==
    /\ out.req.op = "retrieve" /\ out.res = FileMissing
    /\ GetRow(rows, out.req.id) = out.req.row
    /\ ~Exists(disk, out.req.row.filepath)

\* C11: an ingest whose blob store fails is answered with an error at that
\* step and goes no further: the step leaves the index as it was (no row, no
\* id taken), and no ingest proceeds to its index insert with a failed store.
StoreFailed(r) == r.op = "ingest" /\ r.fsErr \in WriteErrors \ {"none"}

C11_StoreFailureInsertsNothing ==
    [][/\ \A r \in BagToSet(inflight') : ~StoreFailed(r)
       /\ StoreFailed(out'.req) =>
             /\ \E r \in Ingests : r.pc = "write" /\ Leaves(r) /\ out'.req = [r EXCEPT !.fsErr = out'.req.fsErr]
             /\ out'.res = Json(500, "Internal Server Error")
             /\ out'.req.id = 0
             /\ rows' = rows
             /\ seq' = seq]_vars

C11_Witness ==
    /\ StoreFailed(out.req) /\ out.res.status = 500
    /\ DOMAIN rows = {1}
    /\ seq = 1
    /\ Exists(disk, JoinPath(out.req.filename))
    /\ JoinPath(out.req.filename) # rows[1].filepath

\* C12: when the index insert of an ingest fails after its blob was stored,
\* the ingest answers 500 "Failed to save metadata", the index is as it was
\* (no row for the ingest), and the blob stays on disk as it was written,
\* with no row referring to it; and a blob that no row and no request in
\* flight refers to is not removed or changed by any step.
IndexInsertError == Json(500, "Failed to save metadata")

Referenced(p) ==
    \/ \E id \in DOMAIN rows : rows[id].filepath = p
    \/ \E r \in InFlight : (r.op = "ingest" /\ JoinPath(r.filename) = p) \/ r.row.filepath = p

C12_InsertFailureOrphansBlob ==
    [][/\ \A r \in Ingests :
             (r.pc = "insert" /\ Leaves(r) /\ out'.res.status # 201) =>
                LET fp == JoinPath(r.filename) IN
                /\ out' = [req |-> r, res |-> IndexInsertError]
                /\ rows' = rows
                /\ disk' = disk
                /\ Exists(disk', fp) /\ Len(disk'[fp]) = r.size
                /\ \A id \in DOMAIN rows' : rows'[id].filepath # fp
       /\ \A p \in DOMAIN disk :
             ~Referenced(p) => Exists(disk', p) /\ disk'[p] = disk[p]]_vars

\* the retrieve that the last step ended: its blob is on disk with the length
\* the retrieve measured, and its Range header was "bytes=start-end" or
\* "bytes=start-"
Retrieved(hasEnd) ==
    /\ out.req.op = "retrieve"
    /\ out.req.range.present /\ out.req.range.hasEnd = hasEnd
    /\ Exists(disk, out.req.row.filepath)
    /\ Len(disk[out.req.row.filepath]) = out.req.fileSize

Stored == disk[out.req.row.filepath]

\* C13: a retrieve of a stored recording of length L with the range
\* "bytes=start-end", 0 <= start <= end < L, answers 206 with Content-Range
\* start-end/L, Content-Length end-start+1 and, as body, exactly the bytes at
\* offsets start..end of the stored content.
C13_RangeLaw ==
    LET start == out.req.range.start
        end   == out.req.range.end
        L     == Len(Stored)
    IN  (Retrieved(TRUE) /\ 0 <= start /\ start <= end /\ end < L) =>
            out.res = [NoRes EXCEPT !.status = 206,
                                    !.contentRange = <<start, end, L>>,
                                    !.contentLength = end - start + 1,
                                    !.body = [i \in 1..(end - start + 1) |-> Stored[start + i]]]

C13_Witness ==
    /\ Retrieved(TRUE)
    /\ Len(Stored) = 3 /\ Stored[2] # Stored[3]
    /\ out.req.range.start = 1 /\ out.req.range.end = 2
    /\ out.res.status = 206
    /\ out.res.body = <<Stored[2], Stored[3]>>

\* C14: a retrieve of a stored recording of length L with the range
\* "bytes=N-", 0 <= N < L, takes L-1 as the end: it answers 206 with
\* Content-Range N-(L-1)/L and, as body, the L-N bytes from offset N through
\* the last byte.
C14_OmittedEnd ==
    LET N == out.req.range.start
        L == Len(Stored)
    IN  (Retrieved(FALSE) /\ 0 <= N /\ N < L) =>
            /\ out.res.status = 206 /\ out.res.error = ""
            /\ out.res.contentRange = <<N, L - 1, L>>
            /\ out.res.contentLength = L - N
            /\ out.res.body = [i \in 1..(L - N) |-> Stored[N + i]]

C14_Witness ==
    /\ Retrieved(FALSE)
    /\ Len(Stored) = 3 /\ Stored[2] # Stored[3]
    /\ out.req.range.start = 1
    /\ out.res.status = 206
    /\ out.res.body = <<Stored[2], Stored[3]>>

\* C15: a retrieve without a Range header of an id that an upload was given
\* and that no delete has touched answers 200 with the length of the
\* uploaded content as Content-Length and the uploaded content, byte for
\* byte, as body (unless its lookup fails with "DB error").
Undeleted(id) ==
    /\ id \in DOMAIN ingested
    /\ id \notin idxDelFailed
    /\ \A r \in Deletes : r.id # id

C15_RoundTrip ==
    (/\ out.req.op = "retrieve"
     /\ Undeleted(out.req.id)
     /\ out.res # Json(500, "DB error")) =>
        \/ out.res = [NoRes EXCEPT !.status = 200,
                                   !.contentLength = Len(ingested[out.req.id]),
                                   !.body = ingested[out.req.id]]
        \/ out.req.range.present

\* C16: a retrieve that found a row and serves bytes (answers 200 or 206)
\* serves a blob whose size on disk equals the filesize recorded in the row;
\* on a mismatch it answers "File missing on server" instead.
C16_ServedSizeMatchesRow ==
    (out.req.op = "retrieve" /\ out.res.status \in {200, 206} /\ out.res.error = "") =>
        /\ out.req.fileSize = out.req.row.filesize
        /\ Len(disk[out.req.row.filepath]) = out.req.row.filesize

\* C17: a list whose query does not fail answers 200 with every row of the
\* index exactly once, in strictly descending order of id (the empty sequence
\* when the index is empty), and the list step changes neither the index nor
\* the disk.
C17_ListAllNewestFirst ==
    [][out'.req.op = "list" =>
          /\ rows' = rows /\ seq' = seq /\ disk' = disk
          /\ out'.res # Json(500, "DB error") =>
                LET l == out'.res.recordings IN
                /\ out'.res.status = 200 /\ out'.res.error = ""
                /\ Len(l) = Cardinality(DOMAIN rows)
                /\ \A id \in DOMAIN rows : \E i \in 1..Len(l) : l[i].id = id
                /\ \A i \in 1..Len(l) :
                      /\ l[i].id \in DOMAIN rows
                      /\ l[i].filename = rows[l[i].id].filename
                      /\ l[i].filesize = rows[l[i].id].filesize
                      /\ l[i].createdAt = rows[l[i].id].createdAt
                /\ \A i, j \in 1..Len(l) : i < j => l[i].id > l[j].id]_vars

C17_Witness ==
    /\ out.req.op = "list" /\ out.res.status = 200
    /\ DOMAIN rows = {1, 2}
    /\ Len(out.res.recordings) = 2
    /\ out.res.recordings[1].id = 2 /\ out.res.recordings[2].id = 1

\* C18: every recording in a response (those a list returns and the one a
\* successful ingest returns) has as filepath the base name of the filepath
\* of the row with its id: no path separator, no directory, never the stored
\* path itself.
C18_OnlyBaseNames ==
    \A i \in 1..Len(out.res.recordings) :
        LET rec == out.res.recordings[i] IN
        /\ rec.id \in DOMAIN rows
        /\ rec.filepath = basename(rows[rec.id].filepath)
        /\ JoinPath(rec.filepath) = rows[rec.id].filepath
        /\ \A k \in 1..Len(rec.filepath) : rec.filepath[k] \notin {"/", uploadDir}
        /\ rec.filepath \notin Paths /\ rec.filename \notin Paths

C18_Witness ==
    /\ out.req.op = "list"
    /\ Len(out.res.recordings) = 2
    /\ \A i \in 1..2 : /\ rows[i].filepath[1] = uploadDir
                       /\ rows[i].filepath \in Paths
                       /\ JoinPath(out.res.recordings[i].filepath) \in Paths

\* C19: the id a successful insert assigns is larger than every id assigned
\* before, whether its recording is still in the index or was deleted (the
\* one with the highest id included), and the id in the ingest's response is
\* the id of the row this ingest inserted.
C19_IdsNeverReused ==
    [][\A r \in Ingests :
          (r.pc = "insert" /\ Leaves(r) /\ out'.res.status = 201) =>
             LET id == out'.res.recordings[1].id IN
             /\ \A j \in DOMAIN rows \cup deletedOk : id > j
             /\ out'.req = [r EXCEPT !.id = id]
             /\ DOMAIN rows' = DOMAIN rows \cup {id}
             /\ \A j \in DOMAIN rows : rows'[j] = rows[j]
             /\ rows'[id].id = id
             /\ rows'[id].filepath = JoinPath(r.filename)
             /\ rows'[id].filesize = r.size
             /\ rows'[id].filename = out'.res.recordings[1].filename]_vars

C19_Witness ==
    /\ out.req.op = "ingest" /\ out.res.status = 201
    /\ out.res.recordings[1].id = 2
    /\ deletedOk = {1}
    /\ DOMAIN rows = {2}

\* C20: a retrieve with a Range header of integer offsets is never turned
\* away, whatever the offsets (start above end, start or end at or beyond the
\* size of the file): it answers 206 with Content-Range start-end/size and
\* Content-Length end-start+1, where size is the blob's size on disk.
C20_AnyRangeAnswers206 ==
    (out.req.op = "retrieve" /\ out.req.range.present) =>
        LET start == RangeStart(out.req.range)
            end   == RangeEnd(out.req.range, out.req.fileSize)
        IN  /\ out.res.status = 206
            /\ out.res.contentRange = <<start, end, out.req.fileSize>>
            /\ out.res.contentLength = end - start + 1

====
